---------------------------- MODULE Spec2Model ----------------------------
(***************************************************************************)
(* Model of src/util/update_sparta.py: the driver that translates SPARTA   *)
(* STIX records (techniques, threats, countermeasures) into RDF triples    *)
(* and unions them into the persisted D3FEND ontology file.                *)
(*                                                                         *)
(* Representation.                                                         *)
(*  - A Python str is a sequence of atoms.  An atom is one character       *)
(*    ("A", ".", " ", "(") or one fixed literal of the program that the    *)
(*    data never splits (a URL prefix, a namespace).  startswith, in,      *)
(*    replace, split and strip are computed over these sequences.          *)
(*  - A Python dict / STIX object is a function whose DOMAIN is the set of *)
(*    keys present; d.get(k) is Get(d, k).                                 *)
(*  - Python None is the value None.                                       *)
(*  - An rdflib Graph is a set of triples <<s, p, o>> of terms; a term is  *)
(*    [k |-> "uri" | "lit", v |-> str].                                    *)
(*  - A call that may raise returns a record with an err field; NoErr      *)
(*    means it returned normally.                                          *)
(***************************************************************************)
EXTENDS Integers, Sequences, FiniteSets, TLC

(***************************************************************************)
(* Bounds of the model.                                                    *)
(***************************************************************************)
MaxRecs == 2          \* records in the record store
MaxRels == 2          \* relationship objects in the record store
MaxRuns == 2          \* successive runs of main()

(***************************************************************************)
(* Python values and str operations.                                       *)
(***************************************************************************)
None == <<"None">>

NoErr == [type |-> "none", arg |-> <<>>]

Raise(t, a) == [type |-> t, arg |-> a]

Get(d, k) == IF k \in DOMAIN d THEN d[k] ELSE None

StartsWith(s, p) ==
    /\ Len(s) >= Len(p)
    /\ SubSeq(s, 1, Len(p)) = p

\* Python "p in s" for str
Contains(s, p) ==
    \E i \in 1..(Len(s) - Len(p) + 1) : SubSeq(s, i, i + Len(p) - 1) = p

RECURSIVE ReplaceFrom(_, _, _, _)
ReplaceFrom(s, old, new, i) ==
    IF i > Len(s) THEN <<>>
    ELSE IF i + Len(old) - 1 <= Len(s) /\ SubSeq(s, i, i + Len(old) - 1) = old
         THEN new \o ReplaceFrom(s, old, new, i + Len(old))
         ELSE <<s[i]>> \o ReplaceFrom(s, old, new, i + 1)

\* Python s.replace(old, new), old non-empty
Replace(s, old, new) == ReplaceFrom(s, old, new, 1)

\* Python s.split(sep)[0], sep one character
SplitFirst(s, sep) ==
    IF \E i \in 1..Len(s) : s[i] = sep
    THEN LET i == CHOOSE j \in 1..Len(s) :
                     /\ s[j] = sep
                     /\ \A k \in 1..(j - 1) : s[k] # sep
         IN SubSeq(s, 1, i - 1)
    ELSE s

\* characters removed by str.strip() with no argument
Whitespace == {" ", "\t", "\n", "\r"}

RECURSIVE LStrip(_)
LStrip(s) ==
    IF s # <<>> /\ Head(s) \in Whitespace THEN LStrip(Tail(s)) ELSE s

RECURSIVE RStrip(_)
RStrip(s) ==
    IF s # <<>> /\ s[Len(s)] \in Whitespace
    THEN RStrip(SubSeq(s, 1, Len(s) - 1))
    ELSE s

\* Python s.strip()
Strip(s) == RStrip(LStrip(s))

\* regex "$": at the end of the string or just before a final newline
AtDollar(s, i) ==
    \/ i = Len(s) + 1
    \/ i = Len(s) /\ s[i] = "\n"

Q2 == "\""

RECURSIVE DescSubFrom(_, _)
DescSubFrom(s, i) ==
    IF i > Len(s) THEN <<>>
    ELSE LET two == IF i + 1 <= Len(s) THEN SubSeq(s, i, i + 1) ELSE <<>>
         IN IF \/ i = 1 /\ two = <<"[", Q2>>
               \/ two = <<Q2, "]">> /\ AtDollar(s, i + 2)
               \/ two = <<"[", "'">>
               \/ two = <<"'", "]">> /\ AtDollar(s, i + 2)
            THEN DescSubFrom(s, i + 2)
            ELSE <<s[i]>> \o DescSubFrom(s, i + 1)

\* re.sub(r"^\[\"|\"\]$|\['|'\]$", "", s)
DescSub(s) == DescSubFrom(s, 1)


(***************************************************************************)
(* RDF terms and the vocabulary the program uses.                          *)
(***************************************************************************)
URIRef(s) == [k |-> "uri", v |-> s]

Literal(s) == [k |-> "lit", v |-> s]

\* D3F = Namespace("http://d3fend.mitre.org/ontologies/d3fend.owl#"); D3F[name]
D3F(name) == URIRef(<<"http://d3fend.mitre.org/ontologies/d3fend.owl#">> \o name)

RDF_type == URIRef(<<"http://www.w3.org/1999/02/22-rdf-syntax-ns#", "type">>)

RDFS_label == URIRef(<<"http://www.w3.org/2000/01/rdf-schema#", "label">>)

RDFS_seeAlso == URIRef(<<"http://www.w3.org/2000/01/rdf-schema#", "seeAlso">>)

RDFS_subClassOf == URIRef(<<"http://www.w3.org/2000/01/rdf-schema#", "subClassOf">>)

OWL_Class == URIRef(<<"http://www.w3.org/2002/07/owl#", "Class">>)

OWL_NamedIndividual == URIRef(<<"http://www.w3.org/2002/07/owl#", "NamedIndividual">>)

D3F_SPARTATechnique == D3F(<<"SPARTA", "Technique">>)

D3F_SPARTAThreat == D3F(<<"SPARTA", "Threat">>)

D3F_SPARTACountermeasure == D3F(<<"SPARTA", "Countermeasure">>)

D3F_definition == D3F(<<"definition">>)

D3F_sparta_id == D3F(<<"sparta-id">>)

D3F_related == D3F(<<"related">>)

D3F_counters == D3F(<<"counters">>)

D3F_enabled_by == D3F(<<"enabled-by">>)

(***************************************************************************)
(* Literals of the program.                                                *)
(***************************************************************************)
SPARTA == <<"sparta">>

D3FEND == <<"D3FEND">>

ATTACK_PATTERN == <<"attack-pattern">>

COURSE_OF_ACTION == <<"course-of-action">>

CM0000 == <<"C", "M", "0", "0", "0", "0">>

TECHNIQUE_URL == <<"https://sparta.aerospace.org/technique/">>

THREAT_URL == <<"https://sparta.aerospace.org/related-work/threats/">>

REFERENCE_URL == <<"https://sparta.aerospace.org/countermeasures/references/">>

D3FEND_TECHNIQUE_URL == <<"https://d3fend.mitre.org/technique/d3f:">>

NIST_PREFIX == <<"NIST_SP_800-53_R5_">>

aerospace_did_layer_to_threat ==
    [layer \in {<<"Prevention">>, <<"Crypto">>, <<"Data">>, <<"S/C Software">>,
                <<"Ground">>, <<"IDS/IPS">>, <<"SBC">>, <<"Comms Link">>} |->
        CASE layer = <<"Prevention">> -> <<"PreventionThreat">>
          [] layer = <<"Crypto">> -> <<"CryptoThreat">>
          [] layer = <<"Data">> -> <<"DataThreat">>
          [] layer = <<"S/C Software">> -> <<"SpacecraftSoftwareThreat">>
          [] layer = <<"Ground">> -> <<"GroundThreat">>
          [] layer = <<"IDS/IPS">> -> <<"IntrusionThreat">>
          [] layer = <<"SBC">> -> <<"SingleBoardComputerThreat">>
          [] layer = <<"Comms Link">> -> <<"CommsLinkThreat">>]

(***************************************************************************)
(* The record store (stix2 MemoryStore): src.objects is the sequence of    *)
(* domain objects in load order, src.relationships the sequence of         *)
(* relationship objects.                                                   *)
(***************************************************************************)
\* src.get(stix_id)
StoreGet(src, id) ==
    LET i == CHOOSE j \in 1..Len(src.objects) : src.objects[j].id = id
    IN src.objects[i]

\* src.relationships(obj): those with obj as source, then those with obj as target
StoreRelationships(src, obj) ==
    SelectSeq(src.relationships, LAMBDA r : r.source_ref = obj.id)
        \o SelectSeq(src.relationships, LAMBDA r : r.target_ref = obj.id)

\* Filter("type", "=", t)
FilterType(obj, t) == Get(obj, "type") = t

\* Filter("external_references.source_name", "=", name)
FilterSourceName(obj, name) ==
    /\ "external_references" \in DOMAIN obj
    /\ \E i \in 1..Len(obj.external_references) :
           Get(obj.external_references[i], "source_name") = name

\* Filter("external_references.url", "contains", part)
FilterUrlContains(obj, part) ==
    /\ "external_references" \in DOMAIN obj
    /\ \E i \in 1..Len(obj.external_references) :
           /\ "url" \in DOMAIN obj.external_references[i]
           /\ Contains(obj.external_references[i].url, part)

\* Filter("kill_chain_phases.kill_chain_name", "=", name)
FilterKillChainName(obj, name) ==
    /\ "kill_chain_phases" \in DOMAIN obj
    /\ \E i \in 1..Len(obj.kill_chain_phases) :
           Get(obj.kill_chain_phases[i], "kill_chain_name") = name

IsTechnique(obj) ==
    /\ FilterType(obj, ATTACK_PATTERN)
    /\ FilterSourceName(obj, SPARTA)
    /\ FilterUrlContains(obj, TECHNIQUE_URL)
    /\ FilterKillChainName(obj, SPARTA)

IsThreatNoPhaseCheck(obj) ==
    /\ FilterType(obj, ATTACK_PATTERN)
    /\ FilterSourceName(obj, SPARTA)
    /\ FilterUrlContains(obj, THREAT_URL)

IsThreat(obj) ==
    /\ FilterType(obj, ATTACK_PATTERN)
    /\ FilterSourceName(obj, SPARTA)
    /\ FilterUrlContains(obj, THREAT_URL)
    /\ "kill_chain_phases" \notin DOMAIN obj

IsCountermeasure(obj) ==
    /\ FilterType(obj, COURSE_OF_ACTION)
    /\ FilterSourceName(obj, SPARTA)

(***************************************************************************)
(* get_sparta_id                                                           *)
(***************************************************************************)
RECURSIVE GetSpartaIdFrom(_, _)
GetSpartaIdFrom(refs, i) ==
    IF i > Len(refs) THEN [val |-> None, err |-> NoErr]
    ELSE IF Get(refs[i], "source_name") = SPARTA
         THEN IF Get(refs[i], "external_id") = None
              THEN [val |-> None, err |-> Raise("AttributeError", <<"startswith">>)]
              ELSE IF ~StartsWith(refs[i].external_id, <<"D", "3">>)
                   THEN [val |-> refs[i].external_id, err |-> NoErr]
                   ELSE GetSpartaIdFrom(refs, i + 1)
         ELSE GetSpartaIdFrom(refs, i + 1)

get_sparta_id(tech) ==
    IF "external_references" \notin DOMAIN tech
    THEN [val |-> None, err |-> Raise("KeyError", <<"external_references">>)]
    ELSE GetSpartaIdFrom(tech.external_references, 1)

\* next((ref.get("url") for ref in obj["external_references"]
\*       if ref.get("source_name") == "sparta"), None)
RECURSIVE SpartaUrlFrom(_, _)
SpartaUrlFrom(refs, i) ==
    IF i > Len(refs) THEN None
    ELSE IF Get(refs[i], "source_name") = SPARTA
         THEN Get(refs[i], "url")
         ELSE SpartaUrlFrom(refs, i + 1)

\* The statements shared by the three translators after the label triple:
\* seeAlso (URIRef(None) raises TypeError), definition, sparta-id.
\* desc is the definition text, or None when obj["description"] raises.
CommonTail(obj, sparta_uri, sparta_id, desc) ==
    LET sparta_url == SpartaUrlFrom(obj.external_references, 1)
    IN IF sparta_url = None
       THEN [triples |-> {}, err |-> Raise("TypeError", <<"URIRef">>)]
       ELSE IF desc = None
            THEN [triples |-> {<<sparta_uri, RDFS_seeAlso, URIRef(sparta_url)>>},
                  err |-> Raise("KeyError", <<"description">>)]
            ELSE [triples |-> {<<sparta_uri, RDFS_seeAlso, URIRef(sparta_url)>>,
                               <<sparta_uri, D3F_definition, Literal(desc)>>,
                               <<sparta_uri, D3F_sparta_id, Literal(sparta_id)>>},
                  err |-> NoErr]


(***************************************************************************)
(* add_technique_to_graph                                                  *)
(***************************************************************************)
\* str("SPARTA" + obj["phase_name"] + " Technique").replace(" ", "")
PhaseClassName(phase_name) ==
    Replace(<<"SPARTA">> \o phase_name \o <<" ", "Technique">>, <<" ">>, <<>>)

\* for obj in tech.get("kill_chain_phases", []): ... (lines 90-92)
RECURSIVE PhaseEdgesFrom(_, _, _)
PhaseEdgesFrom(sparta_uri, phases, i) ==
    IF i > Len(phases) THEN [triples |-> {}, err |-> NoErr]
    ELSE IF "phase_name" \notin DOMAIN phases[i]
         THEN [triples |-> {}, err |-> Raise("KeyError", <<"phase_name">>)]
         ELSE LET rest == PhaseEdgesFrom(sparta_uri, phases, i + 1)
              IN [triples |-> {<<sparta_uri, RDFS_subClassOf,
                                 D3F(PhaseClassName(phases[i].phase_name))>>}
                                  \cup rest.triples,
                  err |-> rest.err]

TechniqueParentsPhasesOnly(tech, sparta_uri, sparta_id) ==
    PhaseEdgesFrom(sparta_uri,
                   IF "kill_chain_phases" \in DOMAIN tech
                   THEN tech.kill_chain_phases ELSE <<>>, 1)

\* lines 78-92: the parent classes of a technique
TechniqueParents(tech, sparta_uri, sparta_id) ==
    IF \E i \in 1..Len(sparta_id) : sparta_id[i] = "."
    THEN [triples |-> {<<sparta_uri, RDFS_subClassOf,
                         D3F(SplitFirst(sparta_id, "."))>>},
          err |-> NoErr]
    ELSE PhaseEdgesFrom(sparta_uri,
                        IF "kill_chain_phases" \in DOMAIN tech
                        THEN tech.kill_chain_phases ELSE <<>>, 1)

\* The result of one translator call: the triples it added to g before it
\* returned or raised, the error it raised, and the identifier it resolved.
Result(sid, triples, err) == [sid |-> sid, triples |-> triples, err |-> err]

add_technique_to_graph(src, tech) ==
    LET r == get_sparta_id(tech)
    IN IF r.err # NoErr THEN Result(None, {}, r.err)
       ELSE IF r.val = None THEN Result(None, {}, NoErr)
       ELSE LET sparta_id == r.val
                sparta_uri == D3F(sparta_id)
                types == {<<sparta_uri, RDF_type, D3F_SPARTATechnique>>,
                          <<sparta_uri, RDF_type, OWL_Class>>,
                          <<sparta_uri, RDF_type, OWL_NamedIndividual>>}
            IN IF "name" \notin DOMAIN tech
               THEN Result(sparta_id, types, Raise("KeyError", <<"name">>))
               ELSE LET label == {<<sparta_uri, RDFS_label,
                                    Literal(Strip(tech.name) \o <<" - SPARTA">>)>>}
                        tail == CommonTail(tech, sparta_uri, sparta_id,
                                           Get(tech, "description"))
                    IN IF tail.err # NoErr
                       THEN Result(sparta_id, types \cup label \cup tail.triples,
                                   tail.err)
                       ELSE LET parents == TechniqueParents(tech, sparta_uri,
                                                            sparta_id)
                            IN Result(sparta_id,
                                      types \cup label \cup tail.triples
                                          \cup parents.triples,
                                      parents.err)

(***************************************************************************)
(* add_threat_to_graph                                                     *)
(***************************************************************************)
ThreatParentLenient(threat, sparta_uri) ==
    IF /\ "x_aerospace_did_layer" \in DOMAIN threat
       /\ threat.x_aerospace_did_layer \in DOMAIN aerospace_did_layer_to_threat
    THEN [triples |-> {<<sparta_uri, RDFS_subClassOf,
               D3F(aerospace_did_layer_to_threat[threat.x_aerospace_did_layer])>>},
          err |-> NoErr]
    ELSE [triples |-> {}, err |-> NoErr]

\* lines 129-136: D3F[aerospace_did_layer_to_threat[threat["x_aerospace_did_layer"]]]
ThreatParent(threat, sparta_uri) ==
    IF "x_aerospace_did_layer" \notin DOMAIN threat
    THEN [triples |-> {}, err |-> Raise("KeyError", <<"x_aerospace_did_layer">>)]
    ELSE IF threat.x_aerospace_did_layer \notin DOMAIN aerospace_did_layer_to_threat
         THEN [triples |-> {},
               err |-> Raise("KeyError", threat.x_aerospace_did_layer)]
         ELSE [triples |-> {<<sparta_uri, RDFS_subClassOf,
                   D3F(aerospace_did_layer_to_threat[threat.x_aerospace_did_layer])>>},
               err |-> NoErr]

\* src.get(rel["target_ref"])["external_references"][0]["external_id"]
FirstExternalId(target) ==
    IF "external_references" \notin DOMAIN target
    THEN [val |-> None, err |-> Raise("KeyError", <<"external_references">>)]
    ELSE IF Len(target.external_references) = 0
         THEN [val |-> None, err |-> Raise("IndexError", <<"0">>)]
         ELSE IF "external_id" \notin DOMAIN target.external_references[1]
              THEN [val |-> None, err |-> Raise("KeyError", <<"external_id">>)]
              ELSE [val |-> target.external_references[1].external_id,
                    err |-> NoErr]

ThreatRelatedEdgeSkipping(src, sparta_uri, rel) ==
    LET first == FirstExternalId(StoreGet(src, rel.target_ref))
    IN IF first.err # NoErr THEN [triples |-> {}, err |-> NoErr]
       ELSE [triples |-> {<<sparta_uri, D3F_related, D3F(first.val)>>},
             err |-> NoErr]

\* lines 140-143: the body of the loop over src.relationships(threat)
ThreatRelatedEdge(src, sparta_uri, rel) ==
    LET first == FirstExternalId(StoreGet(src, rel.target_ref))
    IN IF first.err # NoErr THEN [triples |-> {}, err |-> first.err]
       ELSE [triples |-> {<<sparta_uri, D3F_related, D3F(first.val)>>},
             err |-> NoErr]

\* lines 138-143: for rel in src.relationships(threat)
RECURSIVE ThreatRelatedFrom(_, _, _, _)
ThreatRelatedFrom(src, sparta_uri, rels, i) ==
    IF i > Len(rels) THEN [triples |-> {}, err |-> NoErr]
    ELSE LET edge == ThreatRelatedEdge(src, sparta_uri, rels[i])
         IN IF edge.err # NoErr THEN edge
            ELSE LET rest == ThreatRelatedFrom(src, sparta_uri, rels, i + 1)
                 IN [triples |-> edge.triples \cup rest.triples, err |-> rest.err]

add_threat_to_graph(src, threat) ==
    LET r == get_sparta_id(threat)
    IN IF r.err # NoErr THEN Result(None, {}, r.err)
       ELSE IF r.val = None THEN Result(None, {}, NoErr)
       ELSE LET sparta_id == r.val
                sparta_uri == D3F(sparta_id)
                types == {<<sparta_uri, RDF_type, D3F_SPARTAThreat>>,
                          <<sparta_uri, RDF_type, OWL_Class>>,
                          <<sparta_uri, RDF_type, OWL_NamedIndividual>>}
            IN IF "name" \notin DOMAIN threat
               THEN Result(sparta_id, types, Raise("KeyError", <<"name">>))
               ELSE LET label == {<<sparta_uri, RDFS_label, Literal(threat.name)>>}
                        tail == CommonTail(threat, sparta_uri, sparta_id,
                                    IF "description" \in DOMAIN threat
                                    THEN DescSub(threat.description) ELSE None)
                        parent == ThreatParent(threat, sparta_uri)
                        related == ThreatRelatedFrom(src, sparta_uri,
                                       StoreRelationships(src, threat), 1)
                        head == types \cup label \cup tail.triples
                    IN IF tail.err # NoErr
                       THEN Result(sparta_id, head, tail.err)
                       ELSE IF parent.err # NoErr
                            THEN Result(sparta_id, head, parent.err)
                            ELSE Result(sparta_id,
                                        head \cup parent.triples \cup related.triples,
                                        related.err)


(***************************************************************************)
(* add_countermeasure_to_graph                                             *)
(***************************************************************************)
\* next((ref[key] for ref in refs if ref["source_name"] == "D3FEND"), None)
RECURSIVE FirstD3fendFrom(_, _, _)
FirstD3fendFrom(refs, key, i) ==
    IF i > Len(refs) THEN [val |-> None, err |-> NoErr]
    ELSE IF "source_name" \notin DOMAIN refs[i]
         THEN [val |-> None, err |-> Raise("KeyError", <<"source_name">>)]
         ELSE IF refs[i].source_name = D3FEND
              THEN IF key \in DOMAIN refs[i]
                   THEN [val |-> refs[i][key], err |-> NoErr]
                   ELSE [val |-> None, err |-> Raise("KeyError", <<key>>)]
              ELSE FirstD3fendFrom(refs, key, i + 1)

\* .replace("https://d3fend.mitre.org/technique/d3f:", "").replace("/", "")
D3fendName(url) == Replace(Replace(url, D3FEND_TECHNIQUE_URL, <<>>), <<"/">>, <<>>)

CountersAppliesAnyId(target, sparta_id) ==
    Get(target, "type") = ATTACK_PATTERN

\* lines 209-212: the elif condition
CountersApplies(target, sparta_id) ==
    /\ Get(target, "type") = ATTACK_PATTERN
    /\ sparta_id # CM0000

\* lines 183-216: the body of the loop over src.relationships(countermeasure)
CountermeasureEdge(src, sparta_uri, sparta_id, rel) ==
    LET target == StoreGet(src, rel.target_ref)
    IN IF "external_references" \notin DOMAIN target
       THEN [triples |-> {}, err |-> Raise("KeyError", <<"external_references">>)]
       ELSE LET d3fend_id == FirstD3fendFrom(target.external_references,
                                             "external_id", 1)
            IN IF d3fend_id.err # NoErr THEN [triples |-> {}, err |-> d3fend_id.err]
               ELSE IF d3fend_id.val # None
               THEN LET url == FirstD3fendFrom(target.external_references, "url", 1)
                    IN IF url.err # NoErr THEN [triples |-> {}, err |-> url.err]
                       ELSE [triples |-> {<<sparta_uri, D3F_enabled_by,
                                            D3F(D3fendName(url.val))>>},
                             err |-> NoErr]
               ELSE IF "type" \notin DOMAIN target
               THEN [triples |-> {}, err |-> Raise("KeyError", <<"type">>)]
               ELSE IF CountersApplies(target, sparta_id)
               THEN LET first == FirstExternalId(target)
                    IN IF first.err # NoErr
                       THEN [triples |-> {}, err |-> first.err]
                       ELSE [triples |-> {<<sparta_uri, D3F_counters,
                                            D3F(first.val)>>},
                             err |-> NoErr]
               ELSE [triples |-> {}, err |-> NoErr]

\* lines 182-216: for rel in src.relationships(countermeasure)
RECURSIVE CountermeasureEdgesFrom(_, _, _, _, _)
CountermeasureEdgesFrom(src, sparta_uri, sparta_id, rels, i) ==
    IF i > Len(rels) THEN [triples |-> {}, err |-> NoErr]
    ELSE LET edge == CountermeasureEdge(src, sparta_uri, sparta_id, rels[i])
         IN IF edge.err # NoErr THEN edge
            ELSE LET rest == CountermeasureEdgesFrom(src, sparta_uri, sparta_id,
                                                     rels, i + 1)
                 IN [triples |-> edge.triples \cup rest.triples, err |-> rest.err]

NistControlIdUnderscores(external_id) ==
    Replace(Replace(external_id, <<"(">>, <<"_">>), <<")">>, <<"_">>)

\* ref.get("external_id").replace("(", "_").replace(")", "")
NistControlId(external_id) ==
    Replace(Replace(external_id, <<"(">>, <<"_">>), <<")">>, <<>>)

\* lines 219-228: for ref in countermeasure.get("external_references", [])
RECURSIVE NistEdgesFrom(_, _, _)
NistEdgesFrom(sparta_uri, refs, i) ==
    IF i > Len(refs) THEN [triples |-> {}, err |-> NoErr]
    ELSE IF Get(refs[i], "url") = None
         THEN [triples |-> {}, err |-> Raise("AttributeError", <<"startswith">>)]
         ELSE IF StartsWith(refs[i].url, REFERENCE_URL)
              THEN IF Get(refs[i], "external_id") = None
                   THEN [triples |-> {},
                         err |-> Raise("AttributeError", <<"replace">>)]
                   ELSE LET rest == NistEdgesFrom(sparta_uri, refs, i + 1)
                        IN [triples |->
                               {<<sparta_uri, D3F_related,
                                  D3F(NIST_PREFIX
                                        \o NistControlId(refs[i].external_id))>>}
                                   \cup rest.triples,
                            err |-> rest.err]
              ELSE NistEdgesFrom(sparta_uri, refs, i + 1)

add_countermeasure_to_graph(src, countermeasure) ==
    LET r == get_sparta_id(countermeasure)
    IN IF r.err # NoErr THEN Result(None, {}, r.err)
       ELSE IF r.val = None THEN Result(None, {}, NoErr)
       ELSE LET sparta_id == r.val
                sparta_uri == D3F(sparta_id)
                types == {<<sparta_uri, RDF_type, D3F_SPARTACountermeasure>>,
                          <<sparta_uri, RDF_type, OWL_NamedIndividual>>}
            IN IF "name" \notin DOMAIN countermeasure
               THEN Result(sparta_id, types, Raise("KeyError", <<"name">>))
               ELSE LET label == {<<sparta_uri, RDFS_label,
                                    Literal(countermeasure.name)>>}
                        tail == CommonTail(countermeasure, sparta_uri, sparta_id,
                                           Get(countermeasure, "description"))
                        edges == CountermeasureEdgesFrom(src, sparta_uri, sparta_id,
                                     StoreRelationships(src, countermeasure), 1)
                        nist == NistEdgesFrom(sparta_uri,
                                    countermeasure.external_references, 1)
                        head == types \cup label \cup tail.triples
                    IN IF tail.err # NoErr
                       THEN Result(sparta_id, head, tail.err)
                       ELSE IF edges.err # NoErr
                            THEN Result(sparta_id, head \cup edges.triples,
                                        edges.err)
                            ELSE Result(sparta_id,
                                        head \cup edges.triples \cup nist.triples,
                                        nist.err)


(***************************************************************************)
(* Input data: the STIX objects a dataset is drawn from.                   *)
(***************************************************************************)
Ref(source_name, external_id, url) ==
    [source_name |-> source_name, external_id |-> external_id, url |-> url]

Phase(kill_chain_name, phase_name) ==
    [kill_chain_name |-> kill_chain_name, phase_name |-> phase_name]

Pool == <<
    \* 1: technique "R1", one phase
    [id |-> <<"attack-pattern--1">>, type |-> ATTACK_PATTERN,
     name |-> <<" ", "R", "e", "c", "o", "n", " ">>, description |-> <<"d", "1">>,
     external_references |->
        <<Ref(SPARTA, <<"R", "1">>, TECHNIQUE_URL \o <<"R", "1">>)>>,
     kill_chain_phases |->
        <<Phase(SPARTA, <<"R", "e", "c", "o", "n">>)>>],
    \* 2: sub-technique "R1.1", with a phase
    [id |-> <<"attack-pattern--2">>, type |-> ATTACK_PATTERN,
     name |-> <<"S", "u", "b">>, description |-> <<"d", "2">>,
     external_references |->
        <<Ref(SPARTA, <<"R", "1", ".", "1">>,
              TECHNIQUE_URL \o <<"R", "1", "/", "1">>)>>,
     kill_chain_phases |->
        <<Phase(SPARTA, <<"R", "e", "c", "o", "n">>)>>],
    \* 3: technique "X2", two phases (a space, a tab), and a threat-path url
    [id |-> <<"attack-pattern--3">>, type |-> ATTACK_PATTERN,
     name |-> <<"M", "o", "v", "e">>, description |-> <<"d", "3">>,
     external_references |->
        <<Ref(SPARTA, <<"X", "2">>, TECHNIQUE_URL \o <<"X", "2">>),
          Ref(<<"capec">>, <<"9">>, THREAT_URL \o <<"S", "V", "9">>)>>,
     kill_chain_phases |->
        <<Phase(SPARTA, <<"L", "a", "t", " ", "M", "o", "v">>),
          Phase(<<"mitre-attack">>, <<"E", "x", "\t", "f", "i", "l">>)>>],
    \* 4: technique whose "sparta" reference has no external_id
    [id |-> <<"attack-pattern--4">>, type |-> ATTACK_PATTERN,
     name |-> <<"N", "o", "I", "d">>, description |-> <<"d", "4">>,
     external_references |->
        <<[source_name |-> SPARTA, url |-> TECHNIQUE_URL \o <<"Z">>]>>,
     kill_chain_phases |->
        <<Phase(SPARTA, <<"R", "e", "c", "o", "n">>)>>],
    \* 5: threat "SV1", layer in the table
    [id |-> <<"attack-pattern--5">>, type |-> ATTACK_PATTERN,
     name |-> <<"T", "h", "r">>, description |-> <<"[", "'", "d", "5", "'", "]">>,
     external_references |->
        <<Ref(SPARTA, <<"S", "V", "1">>, THREAT_URL \o <<"S", "V", "1">>)>>,
     x_aerospace_did_layer |-> <<"Crypto">>],
    \* 6: threat "SV2", layer not in the table
    [id |-> <<"attack-pattern--6">>, type |-> ATTACK_PATTERN,
     name |-> <<"T", "h", "2">>, description |-> <<"d", "6">>,
     external_references |->
        <<Ref(SPARTA, <<"S", "V", "2">>, THREAT_URL \o <<"S", "V", "2">>)>>,
     x_aerospace_did_layer |-> <<"Cryptography">>],
    \* 7: threat "SV3", no layer field
    [id |-> <<"attack-pattern--7">>, type |-> ATTACK_PATTERN,
     name |-> <<"T", "h", "3">>, description |-> <<"d", "7">>,
     external_references |->
        <<Ref(SPARTA, <<"S", "V", "3">>, THREAT_URL \o <<"S", "V", "3">>)>>],
    \* 8: the sentinel countermeasure
    [id |-> <<"course-of-action--8">>, type |-> COURSE_OF_ACTION,
     name |-> <<"A", "l", "l">>, description |-> <<"d", "8">>,
     external_references |->
        <<Ref(SPARTA, CM0000, <<"https://sparta.aerospace.org/countermeasures/">>
                                  \o CM0000)>>],
    \* 9: countermeasure "CM0012" with a NIST control reference
    [id |-> <<"course-of-action--9">>, type |-> COURSE_OF_ACTION,
     name |-> <<"C", "M">>, description |-> <<"d", "9">>,
     external_references |->
        <<Ref(SPARTA, <<"C", "M", "0", "0", "1", "2">>,
              <<"https://sparta.aerospace.org/countermeasures/">>
                  \o <<"C", "M", "0", "0", "1", "2">>),
          Ref(<<"NIST 800-53">>, <<"A", "C", "-", "4", "(", "1", ")">>,
              REFERENCE_URL \o <<"A", "C", "-", "4", "(", "1", ")">>)>>],
    \* 10: a D3FEND technique cross-referenced back into SPARTA
    [id |-> <<"course-of-action--10">>, type |-> COURSE_OF_ACTION,
     name |-> <<"F", "A">>, description |-> <<"d", "1", "0">>,
     external_references |->
        <<Ref(D3FEND, <<"D", "3", "-", "F", "A">>,
              D3FEND_TECHNIQUE_URL \o <<"F", "A", "/">>),
          Ref(SPARTA, <<"D", "3", "-", "F", "A">>,
              <<"https://sparta.aerospace.org/countermeasures/d3fend/">>
                  \o <<"D", "3", "-", "F", "A">>)>>],
    \* 11: attack-pattern with an empty external-reference list
    [id |-> <<"attack-pattern--11">>, type |-> ATTACK_PATTERN,
     name |-> <<"E">>, description |-> <<"d", "1", "1">>,
     external_references |-> <<>>],
    \* 12: attack-pattern without external references
    [id |-> <<"attack-pattern--12">>, type |-> ATTACK_PATTERN,
     name |-> <<"N">>, description |-> <<"d", "1", "2">>]
>>

\* the stores: up to MaxRecs distinct objects, loaded in the order of Pool, and
\* up to MaxRels relationships between two different objects of the store
Increasing(f) == \A i, j \in DOMAIN f : i < j => f[i] < f[j]

SeqsUpTo(S, n) == UNION {[1..k -> S] : k \in 0..n}

ObjectSeqs ==
    {[i \in DOMAIN ix |-> Pool[ix[i]]] :
        ix \in {f \in SeqsUpTo(1..Len(Pool), MaxRecs) : Increasing(f)}}

\* a relationship starts at a threat or a countermeasure, as in the dataset
RelationshipsOver(objects) ==
    LET sources == {objects[i].id : i \in {j \in 1..Len(objects) :
                       IsThreat(objects[j]) \/ IsCountermeasure(objects[j])}}
        ids == {objects[i].id : i \in 1..Len(objects)}
        pairs == {[source_ref |-> p[1], target_ref |-> p[2]] :
                     p \in {q \in sources \X ids : q[1] # q[2]}}
    IN SeqsUpTo(pairs, MaxRels)

Stores ==
    UNION {{[objects |-> o, relationships |-> r] : r \in RelationshipsOver(o)} :
              o \in ObjectSeqs}

\* the persisted ontology file before the first run: empty, or an ontology
\* holding classes of its own, a triple of an earlier SPARTA import and a
\* triple the translators generate again
BaseOntology ==
    {<<D3F_SPARTATechnique, RDF_type, OWL_Class>>,
     <<D3F(<<"R", "1">>), RDFS_label, Literal(<<"o", "l", "d">>)>>,
     <<D3F(<<"R", "1">>), RDF_type, OWL_Class>>}

InitialFiles == {{}, BaseOntology}


(***************************************************************************)
(* The driver: main() and get_sparta_graph().                              *)
(***************************************************************************)
VARIABLES
    src,             \* the record store loaded from the dataset file
    file,            \* triples of src/ontology/d3fend-protege.sparta.ttl
    pc,              \* "idle", "translate", "done" or "failed"
    d3fend_graph,    \* main: the parsed ontology graph
    g,               \* get_sparta_graph: the fresh graph
    techniques,      \* selected records not yet translated
    threats,
    countermeasures,
    err,             \* the exception that left main(), NoErr if none
    runs,            \* number of runs of main() started
    last,            \* history: the last translator call and its result
    selected,        \* history: the three query results of the current run
    before,          \* history: the file when the current run started
    first_result     \* history: the file the first completed run persisted

vars == <<src, file, pc, d3fend_graph, g, techniques, threats, countermeasures,
          err, runs, last, selected, before, first_result>>

NoCall == [kind |-> "none", obj |-> [id |-> <<>>], sid |-> None,
           triples |-> {}, err |-> NoErr]

Call(kind, obj, res) ==
    [kind |-> kind, obj |-> obj, sid |-> res.sid, triples |-> res.triples,
     err |-> res.err]

Init ==
    /\ src \in Stores
    /\ file \in InitialFiles
    /\ pc = "idle"
    /\ d3fend_graph = {}
    /\ g = {}
    /\ techniques = <<>>
    /\ threats = <<>>
    /\ countermeasures = <<>>
    /\ err = NoErr
    /\ runs = 0
    /\ last = NoCall
    /\ selected = [techniques |-> <<>>, threats |-> <<>>, countermeasures |-> <<>>]
    /\ before = file
    /\ first_result = {}

\* d3fend_graph += sparta_graph
MergeXor(d3fend, sparta) == (d3fend \ sparta) \cup (sparta \ d3fend)

MergeReplace(d3fend, sparta) == sparta

Merge(d3fend, sparta) == d3fend \cup sparta

\* an exception raised by a translator is caught nowhere: it leaves the loop,
\* get_sparta_graph and main
AfterCallContinue(res) == "translate"

AfterCall(res) == IF res.err # NoErr THEN "failed" ELSE "translate"

\* main lines 297-298 and get_sparta_graph lines 238-278: parse the ontology
\* file, load the store, run the three queries, create the fresh graph
Start ==
    /\ \/ pc = "idle"
       \/ pc \in {"done", "failed"} /\ runs < MaxRuns
    /\ runs' = runs + 1
    /\ d3fend_graph' = file
    /\ before' = file
    /\ techniques' = SelectSeq(src.objects, IsTechnique)
    /\ threats' = SelectSeq(src.objects, IsThreat)
    /\ countermeasures' = SelectSeq(src.objects, IsCountermeasure)
    /\ selected' = [techniques |-> techniques', threats |-> threats',
                    countermeasures |-> countermeasures']
    /\ g' = {}
    /\ err' = NoErr
    /\ last' = NoCall
    /\ pc' = "translate"
    /\ UNCHANGED <<src, file, first_result>>

\* lines 281-282: one iteration of the loop over techniques
AddTechnique ==
    /\ pc = "translate"
    /\ techniques # <<>>
    /\ LET res == add_technique_to_graph(src, Head(techniques))
       IN /\ g' = g \cup res.triples
          /\ last' = Call("technique", Head(techniques), res)
          /\ err' = IF res.err # NoErr THEN res.err ELSE err
          /\ pc' = AfterCall(res)
    /\ techniques' = Tail(techniques)
    /\ UNCHANGED <<src, file, d3fend_graph, threats, countermeasures, runs,
                   selected, before, first_result>>

\* lines 285-286: one iteration of the loop over threats
AddThreat ==
    /\ pc = "translate"
    /\ techniques = <<>>
    /\ threats # <<>>
    /\ LET res == add_threat_to_graph(src, Head(threats))
       IN /\ g' = g \cup res.triples
          /\ last' = Call("threat", Head(threats), res)
          /\ err' = IF res.err # NoErr THEN res.err ELSE err
          /\ pc' = AfterCall(res)
    /\ threats' = Tail(threats)
    /\ UNCHANGED <<src, file, d3fend_graph, techniques, countermeasures, runs,
                   selected, before, first_result>>

\* lines 289-290: one iteration of the loop over countermeasures
AddCountermeasure ==
    /\ pc = "translate"
    /\ techniques = <<>>
    /\ threats = <<>>
    /\ countermeasures # <<>>
    /\ LET res == add_countermeasure_to_graph(src, Head(countermeasures))
       IN /\ g' = g \cup res.triples
          /\ last' = Call("countermeasure", Head(countermeasures), res)
          /\ err' = IF res.err # NoErr THEN res.err ELSE err
          /\ pc' = AfterCall(res)
    /\ countermeasures' = Tail(countermeasures)
    /\ UNCHANGED <<src, file, d3fend_graph, techniques, threats, runs,
                   selected, before, first_result>>

\* get_sparta_graph line 292 and main lines 304-308: return g, union it into
\* the ontology graph, serialize the ontology graph over the file
Persist ==
    /\ pc = "translate"
    /\ techniques = <<>>
    /\ threats = <<>>
    /\ countermeasures = <<>>
    /\ d3fend_graph' = Merge(d3fend_graph, g)
    /\ file' = d3fend_graph'
    /\ first_result' = IF runs = 1 THEN file' ELSE first_result
    /\ pc' = "done"
    /\ UNCHANGED <<src, g, techniques, threats, countermeasures, err, runs, last,
                   selected, before>>

Next ==
    \/ Start
    \/ AddTechnique
    \/ AddThreat
    \/ AddCountermeasure
    \/ Persist

Spec == Init /\ [][Next]_vars


(***************************************************************************)
(* Properties.                                                             *)
(***************************************************************************)
\* the objects of the three kinds of edge among the triples of a call
EdgesOf(call, predicate) == {t \in call.triples : t[2] = predicate}

\* the record's own phases, as tech.get("kill_chain_phases", [])
PhasesOf(obj) ==
    IF "kill_chain_phases" \in DOMAIN obj THEN obj.kill_chain_phases ELSE <<>>

\* C1: once a second (or later) run of main() on the unchanged dataset has
\* completed, the persisted triple set equals the one the first run persisted.
C1_Idempotent ==
    (pc = "done" /\ runs >= 2) => file = first_result

C1_Witness ==
    /\ pc = "done"
    /\ runs = 2
    /\ g # {}
    /\ ~(g \subseteq BaseOntology)
    /\ file = first_result

\* C2: after a completed run the persisted triple set is exactly the triples
\* that were in the file before the run together with the freshly generated
\* ones; every pre-existing triple is still there.
C2_UnionPreserves ==
    pc = "done" =>
        /\ before \subseteq file
        /\ g \subseteq file
        /\ \A t \in file : t \in before \/ t \in g

C2_Witness ==
    /\ pc = "done"
    /\ before # {}
    /\ ~(g \subseteq before)
    /\ ~(before \subseteq g)

\* C3: a run in which a translator raised never persists: the file still
\* holds what it held before the run.  A completed run has translated every
\* selected record without error, techniques before threats before
\* countermeasures.
C3_FailureLeavesFile ==
    /\ (pc = "failed" \/ err # NoErr) => file = before
    /\ pc = "done" =>
          /\ err = NoErr
          /\ techniques = <<>> /\ threats = <<>> /\ countermeasures = <<>>
    /\ threats # selected.threats => techniques = <<>>
    /\ countermeasures # selected.countermeasures =>
          techniques = <<>> /\ threats = <<>>

C3_Witness ==
    /\ pc = "failed"
    /\ err # NoErr
    /\ g # {}
    /\ ~(g \subseteq before)
    /\ file = before

\* C4 as stated: the subclass-of edges of a translated technique are the one
\* edge to the text before the first "." of a dotted identifier, else one edge
\* per phase to "SPARTA" + phase name + "Technique" with every whitespace
\* character removed.
C4_Original ==
    (last.kind = "technique" /\ last.sid # None /\ last.err = NoErr) =>
        LET sid == last.sid
            dots == {i \in 1..Len(sid) : sid[i] = "."}
            firstDot == CHOOSE i \in dots : \A j \in dots : i <= j
            phases == PhasesOf(last.obj)
            stripped(s) == SelectSeq(s, LAMBDA c : c \notin Whitespace)
            expected ==
                IF dots # {}
                THEN {D3F(SubSeq(sid, 1, firstDot - 1))}
                ELSE {D3F(<<"SPARTA">> \o stripped(phases[i].phase_name)
                              \o <<"Technique">>) : i \in 1..Len(phases)}
        IN EdgesOf(last, RDFS_subClassOf) =
               {<<D3F(sid), RDFS_subClassOf, parent>> : parent \in expected}

\* C4 amended: as C4, except that only space characters (U+0020) are removed
\* from the class name; tabs and other whitespace in a phase name are kept.
C4_SubclassEdges ==
    (last.kind = "technique" /\ last.sid # None /\ last.err = NoErr) =>
        LET sid == last.sid
            dots == {i \in 1..Len(sid) : sid[i] = "."}
            firstDot == CHOOSE i \in dots : \A j \in dots : i <= j
            phases == PhasesOf(last.obj)
            unspaced(s) == SelectSeq(s, LAMBDA c : c # " ")
            expected ==
                IF dots # {}
                THEN {D3F(SubSeq(sid, 1, firstDot - 1))}
                ELSE {D3F(<<"SPARTA">> \o unspaced(phases[i].phase_name)
                              \o <<"Technique">>) : i \in 1..Len(phases)}
        IN EdgesOf(last, RDFS_subClassOf) =
               {<<D3F(sid), RDFS_subClassOf, parent>> : parent \in expected}

C4_Witness ==
    /\ last.kind = "technique"
    /\ last.err = NoErr
    /\ last.sid = <<"X", "2">>
    /\ \E i \in 1..Len(PhasesOf(last.obj)) :
           \E k \in 1..Len(last.obj.kill_chain_phases[i].phase_name) :
               last.obj.kill_chain_phases[i].phase_name[k] = " "
    /\ \E i \in 1..Len(PhasesOf(last.obj)) :
           \E k \in 1..Len(last.obj.kill_chain_phases[i].phase_name) :
               last.obj.kill_chain_phases[i].phase_name[k] = "\t"
    /\ Cardinality(EdgesOf(last, RDFS_subClassOf)) = 2

\* C5: the "counters" edges of a translated countermeasure: none when its
\* identifier is "CM0000"; otherwise one per relationship whose target is an
\* attack-pattern without a D3FEND reference, to the URI of that target's
\* first external reference id.
C5_CountersEdges ==
    (last.kind = "countermeasure" /\ last.sid # None /\ last.err = NoErr) =>
        LET rels == StoreRelationships(src, last.obj)
            targets == {StoreGet(src, rels[i].target_ref) : i \in 1..Len(rels)}
            sameDomain ==
                {t \in targets :
                    /\ t.type = ATTACK_PATTERN
                    /\ \A i \in 1..Len(t.external_references) :
                           t.external_references[i].source_name # D3FEND}
        IN EdgesOf(last, D3F_counters) =
               IF last.sid = CM0000 THEN {}
               ELSE {<<D3F(last.sid), D3F_counters,
                       D3F(t.external_references[1].external_id)>> :
                         t \in sameDomain}

C5_Witness ==
    /\ last.kind = "countermeasure"
    /\ last.err = NoErr
    /\ last.sid = <<"C", "M", "0", "0", "1", "2">>
    /\ Cardinality(EdgesOf(last, D3F_counters)) = 1


\* the record's defense-layer value is a key of the fixed table
LayerKnown(obj) ==
    /\ "x_aerospace_did_layer" \in DOMAIN obj
    /\ obj.x_aerospace_did_layer \in DOMAIN aerospace_did_layer_to_threat

\* C6 as stated: every reference of a translated countermeasure whose url
\* starts with the control-reference prefix gives a "related" edge to
\* "NIST_SP_800-53_R5_" + external-id with "(" and ")" each rewritten to "_"
\* ("AC-4(1)" gives "AC-4_1_").
C6_Original ==
    (last.kind = "countermeasure" /\ last.sid # None /\ last.err = NoErr) =>
        LET refs == last.obj.external_references
            rewritten(s) ==
                [i \in 1..Len(s) |-> IF s[i] \in {"(", ")"} THEN "_" ELSE s[i]]
        IN \A i \in 1..Len(refs) :
               StartsWith(refs[i].url, REFERENCE_URL) =>
                   <<D3F(last.sid), D3F_related,
                     D3F(NIST_PREFIX \o rewritten(refs[i].external_id))>>
                       \in last.triples

\* C6 amended: the edge goes to "NIST_SP_800-53_R5_" + external-id with each
\* "(" rewritten to "_" and each ")" removed ("AC-4(1)" gives "AC-4_1"), and
\* these are the only "related" edges of a countermeasure.
C6_NistEdges ==
    (last.kind = "countermeasure" /\ last.sid # None /\ last.err = NoErr) =>
        LET refs == last.obj.external_references
            rewritten(s) ==
                SelectSeq([i \in 1..Len(s) |-> IF s[i] = "(" THEN "_" ELSE s[i]],
                          LAMBDA c : c # ")")
            controls == {i \in 1..Len(refs) : StartsWith(refs[i].url, REFERENCE_URL)}
        IN /\ EdgesOf(last, D3F_related) =
                  {<<D3F(last.sid), D3F_related,
                     D3F(NIST_PREFIX \o rewritten(refs[i].external_id))>> :
                       i \in controls}
           /\ \A i \in controls :
                  refs[i].external_id = <<"A", "C", "-", "4", "(", "1", ")">> =>
                      <<D3F(last.sid), D3F_related,
                        D3F(NIST_PREFIX \o <<"A", "C", "-", "4", "_", "1">>)>>
                          \in last.triples

C6_Witness ==
    /\ last.kind = "countermeasure"
    /\ last.err = NoErr
    /\ \E i \in 1..Len(last.obj.external_references) :
           /\ StartsWith(last.obj.external_references[i].url, REFERENCE_URL)
           /\ last.obj.external_references[i].external_id
                  = <<"A", "C", "-", "4", "(", "1", ")">>
    /\ Cardinality(EdgesOf(last, D3F_related)) = 1

\* C7 as stated: translating a threat whose layer is not a key of the table
\* fails the run with an error that names the threat's identifier; a threat
\* translated successfully has exactly one subclass-of edge, to the class the
\* table maps its layer to.
C7_Original ==
    (last.kind = "threat" /\ last.sid # None) =>
        /\ ~LayerKnown(last.obj) =>
              /\ last.err # NoErr
              /\ pc = "failed"
              /\ Contains(last.err.arg, last.sid)
        /\ last.err = NoErr =>
              /\ LayerKnown(last.obj)
              /\ EdgesOf(last, RDFS_subClassOf) =
                     {<<D3F(last.sid), RDFS_subClassOf,
                        D3F(aerospace_did_layer_to_threat[
                                last.obj.x_aerospace_did_layer])>>}

\* C7 amended: the failure is the table lookup's KeyError, which carries the
\* unmatched layer value (the field name when the field is absent) and not
\* the threat's identifier; no subclass-of edge was emitted for the threat
\* and the run is failed.  The part on successful translation is unchanged.
C7_LayerLookup ==
    (last.kind = "threat" /\ last.sid # None) =>
        /\ ~LayerKnown(last.obj) =>
              /\ last.err # NoErr
              /\ pc = "failed"
              /\ EdgesOf(last, RDFS_subClassOf) = {}
              /\ EdgesOf(last, D3F_sparta_id) # {} =>
                    /\ last.err.type = "KeyError"
                    /\ last.err.arg =
                          IF "x_aerospace_did_layer" \in DOMAIN last.obj
                          THEN last.obj.x_aerospace_did_layer
                          ELSE <<"x_aerospace_did_layer">>
                    /\ ~Contains(last.err.arg, last.sid)
        /\ last.err = NoErr =>
              /\ LayerKnown(last.obj)
              /\ EdgesOf(last, RDFS_subClassOf) =
                     {<<D3F(last.sid), RDFS_subClassOf,
                        D3F(aerospace_did_layer_to_threat[
                                last.obj.x_aerospace_did_layer])>>}

C7_Witness ==
    /\ last.kind = "threat"
    /\ last.sid = <<"S", "V", "2">>
    /\ last.obj.x_aerospace_did_layer = <<"Cryptography">>
    /\ last.err = Raise("KeyError", <<"Cryptography">>)
    /\ pc = "failed"

\* some relationship of the record points at a target whose list of external
\* references is empty
EmptyTargets(obj) ==
    LET rels == StoreRelationships(src, obj)
    IN {i \in 1..Len(rels) :
           LET t == StoreGet(src, rels[i].target_ref)
           IN /\ "external_references" \in DOMAIN t
              /\ t.external_references = <<>>}

\* every target of the record's relationships carries an external-reference
\* list
TargetsHaveLists(obj) ==
    LET rels == StoreRelationships(src, obj)
    IN \A i \in 1..Len(rels) :
           "external_references" \in DOMAIN StoreGet(src, rels[i].target_ref)

LacksIdentifier(obj) ==
    /\ "external_references" \in DOMAIN obj
    /\ \A i \in 1..Len(obj.external_references) :
           LET ref == obj.external_references[i]
           IN ~(/\ "source_name" \in DOMAIN ref
                /\ ref.source_name = SPARTA
                /\ "external_id" \in DOMAIN ref
                /\ ~StartsWith(ref.external_id, <<"D", "3">>))

\* C9: translating a record that lacks a domain identifier resolves the
\* absent marker without raising, adds no triple, and leaves the run
\* translating.
C9_AbsentIdSkips ==
    (last.kind # "none" /\ LacksIdentifier(last.obj)) =>
        /\ last.err = NoErr
        /\ last.sid = None
        /\ last.triples = {}
        /\ pc # "failed"

\* the ids of a query result
IdsOf(records) == {records[i].id : i \in 1..Len(records)}

\* C10: the three query results share no record; a record selected as a
\* threat has no kill-chain-phase entries, a record selected as a technique
\* has an entry whose kill-chain name is "sparta".
C10_Disjoint ==
    /\ IdsOf(selected.techniques) \cap IdsOf(selected.threats) = {}
    /\ IdsOf(selected.techniques) \cap IdsOf(selected.countermeasures) = {}
    /\ IdsOf(selected.threats) \cap IdsOf(selected.countermeasures) = {}
    /\ \A i \in 1..Len(selected.threats) :
           PhasesOf(selected.threats[i]) = <<>>
    /\ \A i \in 1..Len(selected.techniques) :
           \E k \in 1..Len(PhasesOf(selected.techniques[i])) :
               selected.techniques[i].kill_chain_phases[k].kill_chain_name = SPARTA

C10_Witness ==
    /\ pc = "translate"
    /\ selected.threats # <<>>
    /\ \E i \in 1..Len(selected.techniques) :
           /\ FilterUrlContains(selected.techniques[i], THREAT_URL)
           /\ selected.techniques[i].id \notin IdsOf(selected.threats)

=============================================================================
